---- MODULE Spec2Model ----
(***************************************************************************)
(* Genetic-algorithm timetable generator of the ai-service                 *)
(* (services/timetable_generation/service.py and routes.py).               *)
(*                                                                         *)
(* One behaviour is one call of an endpoint: /generate, followed by one    *)
(* call of /analyze on the returned timetable, /optimize or /analyze.      *)
(* Every call of the process-wide random generator is a nondeterministic   *)
(* choice.                                                                 *)
(*                                                                         *)
(* Representation                                                          *)
(*  - a time object is <<hour, minute, second>>; a time string "HH:MM:SS"  *)
(*    is the numeral HHMMSS (80000 is "08:00:00"), whose order and         *)
(*    equality are those of the zero-padded string;                        *)
(*  - an input time string is the sequence of its ':'-separated numbers;   *)
(*  - None is the string "None";                                           *)
(*  - a fitness score is [hundredths, num, den, ulp], standing for         *)
(*    (hundredths + num/den)/100, lowered by one unit in the last place    *)
(*    of the binary64 result when ulp = -1;                                *)
(*  - a rate is a percentage (80 is 0.8).                                  *)
(* Python objects are modelled by value: the only in-place writes of the   *)
(* source are those of _calculate_fitness on a freshly built child and of  *)
(* _mutate on its own deep copy, so no write is visible through an alias.  *)
(***************************************************************************)
EXTENDS Integers, Sequences, FiniteSets, TLC

None == "None"

\* ------------------------------------------------------------ bounds ----
\* Largest generation budget of a modelled request; populations of three
\* are run for one generation less.
MaxGenerations == 2

\* Population and elite of the evolution that optimize_timetable runs: the
\* source fixes 50 and 10 (routes.py 155, 159), and 500 generations, for
\* which the largest generation budget stands.
OptimizePopulation == 2
OptimizeElite == 1

\* population_size of the runs in which one tournament is followed: above
\* tournament_size, as the default of 100 is.
TournamentPopulation == 6

\* ------------------------------------------------- program constants ----
tournament_size == 5
break_skip_minutes == 15
max_swaps == 5

\* -------------------------------------------------------- utilities ----
Min(a, b) == IF a < b THEN a ELSE b
Max(a, b) == IF a > b THEN a ELSE b

RECURSIVE Gcd(_, _)
Gcd(a, b) == IF b = 0 THEN a ELSE Gcd(b, a % b)

Range(s) == {s[i] : i \in DOMAIN s}

\* dict.get(key, default); a dict is a function on its keys.
Get(d, key, default) == IF key \in DOMAIN d THEN d[key] ELSE default

\* {}
EmptyDict == [key \in {} |-> None]

RECURSIVE SumSeq(_)
SumSeq(s) == IF s = <<>> THEN 0 ELSE Head(s) + SumSeq(Tail(s))

RECURSIVE Flatten(_)
Flatten(ss) == IF ss = <<>> THEN <<>> ELSE Head(ss) \o Flatten(Tail(ss))

\* The distinct elements of s in order of first appearance: the iteration
\* order of a Python dict whose keys are inserted in the order of s.
RECURSIVE FirstSeen(_)
FirstSeen(s) ==
    IF s = <<>> THEN <<>>
    ELSE LET init == FirstSeen(SubSeq(s, 1, Len(s) - 1))
             last == s[Len(s)]
         IN  IF last \in Range(init) THEN init ELSE Append(init, last)

\* ---------------------------------------------------- time arithmetic ----
\* TimetableGenerator._parse_time: "HH:MM[:SS]" to a time object.
_parse_time(parts) ==
    <<parts[1], parts[2], IF Len(parts) > 2 THEN parts[3] ELSE 0>>

\* _parse_time raises ValueError: datetime.time rejects a field out of
\* range.
_parse_time_raises(parts) ==
    \/ parts[1] \notin 0..23
    \/ parts[2] \notin 0..59
    \/ Len(parts) > 2 /\ parts[3] \notin 0..59

\* time.strftime('%H:%M:%S')
strftime(t) == (t[1] * 10000) + (t[2] * 100) + t[3]

\* Order of time objects (hour, minute, second compared in turn).
TimeSeconds(t) == (t[1] * 3600) + (t[2] * 60) + t[3]
TimeLeq(a, b) == TimeSeconds(a) <= TimeSeconds(b)
TimeLess(a, b) == TimeSeconds(a) < TimeSeconds(b)

\* Seconds since midnight of a time string "HH:MM:SS".
StrSeconds(n) ==
    ((n \div 10000) * 3600) + (((n \div 100) % 100) * 60) + (n % 100)

\* TimetableGenerator._add_minutes
_add_minutes(time_obj, minutes) ==
    LET total_seconds == (time_obj[1] * 3600) + (time_obj[2] * 60)
                         + time_obj[3] + (minutes * 60)
    IN  <<(total_seconds \div 3600) % 24,
          (total_seconds % 3600) \div 60,
          total_seconds % 60>>

\* TimetableGenerator._extract_days_from_bitmask
_extract_days_from_bitmask(bitmask) ==
    LET Bit(i) == (bitmask \div (2 ^ i)) % 2 = 1
        days == SelectSeq(<<0, 1, 2, 3, 4, 5, 6>>, Bit)
    IN  IF days # <<>> THEN days ELSE <<1, 2, 3, 4, 5>>

\* Faulty variant of _is_break_time: break_start < time_obj < break_end,
\* the first instant of a break is not break time.
_is_break_time_after_start(g, day, time_obj) ==
    \E i \in DOMAIN g.break_schedules :
        LET break_schedule == g.break_schedules[i]
            break_days == _extract_days_from_bitmask(break_schedule.days)
            break_start == _parse_time(break_schedule.start_time)
            break_end == _parse_time(break_schedule.end_time)
        IN  /\ day \in Range(break_days)
            /\ TimeLess(break_start, time_obj)
            /\ TimeLess(time_obj, break_end)

\* TimetableGenerator._is_break_time
_is_break_time(g, day, time_obj) ==
    \E i \in DOMAIN g.break_schedules :
        LET break_schedule == g.break_schedules[i]
            break_days == _extract_days_from_bitmask(break_schedule.days)
            break_start == _parse_time(break_schedule.start_time)
            break_end == _parse_time(break_schedule.end_time)
        IN  /\ day \in Range(break_days)
            /\ TimeLeq(break_start, time_obj)
            /\ TimeLess(time_obj, break_end)

\* _is_break_time raises ValueError: the loop reaches, before any break
\* that contains time_obj, a break of that day with a time string that
\* _parse_time rejects.
_is_break_time_raises(g, day, time_obj) ==
    \E i \in DOMAIN g.break_schedules :
        /\ day \in Range(_extract_days_from_bitmask(g.break_schedules[i].days))
        /\ \/ _parse_time_raises(g.break_schedules[i].start_time)
           \/ _parse_time_raises(g.break_schedules[i].end_time)
        /\ ~_is_break_time([g EXCEPT !.break_schedules =
                                SubSeq(g.break_schedules, 1, i - 1)],
                           day, time_obj)

\* ------------------------------------------------------- generator ----
\* TimetableGenerator.__init__: the fields derived from the request.
TimetableGenerator(req) ==
    [sections |-> req.sections,
     teachers |-> req.teachers,
     subjects |-> req.subjects,
     rooms |-> req.rooms,
     break_schedules |-> req.break_schedules,
     constraints |-> req.constraints,
     school_days |-> _extract_days_from_bitmask(
                         Get(req.school_timing, "school_days", 62)),
     period_duration |-> Get(req.school_timing, "period_duration_minutes", 45),
     total_periods |-> Get(req.school_timing, "total_periods", 8),
     start_time |-> _parse_time(Get(req.school_timing, "start_time",
                                    <<8, 0, 0>>)),
     end_time |-> _parse_time(Get(req.school_timing, "end_time",
                                  <<15, 0, 0>>))]

\* TimetableGenerator.__init__ raises ValueError (service.py 82-83).
TimetableGenerator_raises(req) ==
    \/ _parse_time_raises(Get(req.school_timing, "start_time", <<8, 0, 0>>))
    \/ _parse_time_raises(Get(req.school_timing, "end_time", <<15, 0, 0>>))

\* Faulty variant of _select_teacher_for_subject: when no teacher is
\* eligible, any teacher is drawn.
_select_teacher_for_any_subject(g, subject_id) ==
    LET Eligible(t) == subject_id \in Range(t.subjects) \/ t.can_teach_all
        available_teachers == SelectSeq(g.teachers, Eligible)
    IN  IF available_teachers = <<>>
        THEN {g.teachers[i].id : i \in DOMAIN g.teachers}
        ELSE {available_teachers[i].id : i \in DOMAIN available_teachers}

\* TimetableGenerator._select_teacher_for_subject: the ids random.choice
\* can return, {None} when no teacher is eligible.
_select_teacher_for_subject(g, subject_id) ==
    LET Eligible(t) == subject_id \in Range(t.subjects) \/ t.can_teach_all
        available_teachers == SelectSeq(g.teachers, Eligible)
    IN  IF available_teachers = <<>> THEN {None}
        ELSE {available_teachers[i].id : i \in DOMAIN available_teachers}

\* Faulty variant of _select_room: is_available is not looked at.
_select_any_room(g) ==
    IF g.rooms = <<>> THEN {None}
    ELSE {g.rooms[i].id : i \in DOMAIN g.rooms}

\* TimetableGenerator._select_room
_select_room(g) ==
    LET Avail(r) == r.is_available
        available_rooms == SelectSeq(g.rooms, Avail)
    IN  IF g.rooms = <<>> THEN {None}
        ELSE IF available_rooms = <<>> THEN {None}
        ELSE {available_rooms[i].id : i \in DOMAIN available_rooms}

\* Subjects a section draws from (service.py 189-192).
SectionSubjects(g, section) ==
    IF section.subjects # <<>> THEN section.subjects
    ELSE [i \in DOMAIN g.subjects |-> g.subjects[i].id]

\* The inner loop of _initialize_population for one section and one day
\* (service.py 199-231): the slots laid out, before the random draws.
RECURSIVE DaySlots(_, _, _, _, _, _)
DaySlots(g, section_id, day, remaining, period_num, current_time) ==
    IF remaining = 0 THEN <<>>
    ELSE IF _is_break_time(g, day, current_time)
         THEN DaySlots(g, section_id, day, remaining - 1, period_num,
                       _add_minutes(current_time, break_skip_minutes))
         ELSE LET end_time == _add_minutes(current_time, g.period_duration)
              IN  <<[day_of_week |-> day,
                     period_number |-> period_num,
                     start_time |-> strftime(current_time),
                     end_time |-> strftime(end_time),
                     section_id |-> section_id]>>
                  \o DaySlots(g, section_id, day, remaining - 1,
                              period_num + 1, end_time)

\* The slots of one section, day after day (service.py 195-197).
SectionSlots(g, si) ==
    Flatten([d \in DOMAIN g.school_days |->
                DaySlots(g, g.sections[si].id, g.school_days[d],
                         g.total_periods, 1, g.start_time)])

\* The slots of all sections (service.py 185-186), each with the index of
\* its section.
Slots(g) ==
    Flatten([si \in DOMAIN g.sections |->
                LET ss == SectionSlots(g, si)
                IN  [j \in DOMAIN ss |-> [slot |-> ss[j], si |-> si]]])

\* The periods the random draws of service.py 206-227 can produce for a slot.
SlotPeriods(g, e) ==
    LET section_subjects == SectionSubjects(g, g.sections[e.si])
    IN  UNION {{[day_of_week |-> e.slot.day_of_week,
                 period_number |-> e.slot.period_number,
                 start_time |-> e.slot.start_time,
                 end_time |-> e.slot.end_time,
                 subject_id |-> subject_id,
                 teacher_id |-> teacher_id,
                 room_id |-> room_id,
                 section_id |-> e.slot.section_id] :
                   teacher_id \in _select_teacher_for_subject(g, subject_id),
                   room_id \in _select_room(g)} :
               subject_id \in Range(section_subjects)}

\* The period lists one pass of the outer loop body of
\* _initialize_population (service.py 182-231) can build.
RECURSIVE PeriodLists(_, _)
PeriodLists(g, slots) ==
    IF slots = <<>> THEN {<<>>}
    ELSE {<<p>> \o rest : p \in SlotPeriods(g, Head(slots)),
                          rest \in PeriodLists(g, Tail(slots))}

\* TimetableSolution(periods=...): fitness 0.0 and no conflicts until
\* evaluated (service.py 38-47).
Zero == [hundredths |-> 0, num |-> 0, den |-> 1, ulp |-> 0]
One == [hundredths |-> 100, num |-> 0, den |-> 1, ulp |-> 0]
TimetableSolution(periods) ==
    [periods |-> periods, fitness_score |-> Zero, conflicts |-> <<>>]

\* Faulty variant of _initialize_population: a solution may list its
\* periods from the last to the first.
_initialize_population_reversing(g, size) ==
    LET lists == PeriodLists(g, Slots(g))
        Reverse(l) == [i \in DOMAIN l |-> l[Len(l) + 1 - i]]
        either == lists \cup {Reverse(l) : l \in lists}
    IN  {[i \in 1..size |-> TimetableSolution(f[i])] :
            f \in [1..size -> either]}

\* TimetableGenerator._initialize_population: the populations it can return.
_initialize_population(g, size) ==
    LET lists == PeriodLists(g, Slots(g))
    IN  {[i \in 1..size |-> TimetableSolution(f[i])] :
            f \in [1..size -> lists]}

\* The inner loop of _initialize_population raises ValueError: one of its
\* calls of _is_break_time does (service.py 201).
RECURSIVE DaySlots_raises(_, _, _, _)
DaySlots_raises(g, day, remaining, current_time) ==
    /\ remaining > 0
    /\ \/ _is_break_time_raises(g, day, current_time)
       \/ DaySlots_raises(g, day, remaining - 1,
                          _add_minutes(current_time,
                                       IF _is_break_time(g, day, current_time)
                                       THEN break_skip_minutes
                                       ELSE g.period_duration))

\* _initialize_population raises ValueError.
_initialize_population_raises(g, size) ==
    /\ size > 0
    /\ g.sections # <<>>
    /\ \E d \in DOMAIN g.school_days :
          DaySlots_raises(g, g.school_days[d], g.total_periods, g.start_time)

\* --------------------------------------------------------- evaluator ----
\* Order of fitness scores.
FitLess(a, b) ==
    \/ a.hundredths < b.hundredths
    \/ /\ a.hundredths = b.hundredths
       /\ \/ a.num * b.den < b.num * a.den
          \/ a.num * b.den = b.num * a.den /\ a.ulp < b.ulp
FitLeq(a, b) == ~FitLess(b, a)

\* Faulty variant of SlotKey: the section is made part of the key, so that
\* bookings of different sections never collide.
SlotKeyWithSection(p) ==
    <<p.section_id, p.day_of_week, p.start_time, p.end_time>>

\* The (day, start, end) key of service.py 326 and 353.
SlotKey(p) == <<p.day_of_week, p.start_time, p.end_time>>

\* Faulty variant of _detect_teacher_overlaps: a double-booked key is
\* reported once, for its second period only.
_detect_teacher_overlaps_once(periods) ==
    LET N == Len(periods)
        Booked(i) == periods[i].teacher_id # None
        Same(j, i) == /\ Booked(j)
                      /\ periods[j].teacher_id = periods[i].teacher_id
                      /\ SlotKey(periods[j]) = SlotKey(periods[i])
        Earlier(i) == {j \in 1..(i-1) : Same(j, i)}
        F[i \in 0..N] ==
            IF i = 0 THEN <<>>
            ELSE IF Booked(i) /\ Cardinality(Earlier(i)) = 1
                 THEN Append(F[i-1],
                        [type |-> "teacher_overlap",
                         severity |-> "error",
                         teacher_id |-> periods[i].teacher_id,
                         periods |-> <<periods[CHOOSE j \in Earlier(i) : TRUE],
                                       periods[i]>>,
                         message |-> <<"Teacher", periods[i].teacher_id,
                                       "is double-booked">>])
                 ELSE F[i-1]
    IN  F[N]

\* TimetableGenerator._detect_teacher_overlaps
_detect_teacher_overlaps(periods) ==
    LET N == Len(periods)
        Booked(i) == periods[i].teacher_id # None
        Same(j, i) == /\ Booked(j)
                      /\ periods[j].teacher_id = periods[i].teacher_id
                      /\ SlotKey(periods[j]) = SlotKey(periods[i])
        \* teacher_schedule[teacher][key]: the first period stored under it
        First(i) == CHOOSE j \in 1..i : Same(j, i) /\ \A k \in 1..(j-1) : ~Same(k, i)
        F[i \in 0..N] ==
            IF i = 0 THEN <<>>
            ELSE IF Booked(i) /\ First(i) # i
                 THEN Append(F[i-1],
                        [type |-> "teacher_overlap",
                         severity |-> "error",
                         teacher_id |-> periods[i].teacher_id,
                         periods |-> <<periods[First(i)], periods[i]>>,
                         message |-> <<"Teacher", periods[i].teacher_id,
                                       "is double-booked">>])
                 ELSE F[i-1]
    IN  F[N]

\* TimetableGenerator._detect_room_double_bookings
_detect_room_double_bookings(periods) ==
    LET N == Len(periods)
        Booked(i) == periods[i].room_id # None
        Same(j, i) == /\ Booked(j)
                      /\ periods[j].room_id = periods[i].room_id
                      /\ SlotKey(periods[j]) = SlotKey(periods[i])
        First(i) == CHOOSE j \in 1..i : Same(j, i) /\ \A k \in 1..(j-1) : ~Same(k, i)
        F[i \in 0..N] ==
            IF i = 0 THEN <<>>
            ELSE IF Booked(i) /\ First(i) # i
                 THEN Append(F[i-1],
                        [type |-> "room_double_booking",
                         severity |-> "error",
                         room_id |-> periods[i].room_id,
                         periods |-> <<periods[First(i)], periods[i]>>,
                         message |-> <<"Room", periods[i].room_id,
                                       "is double-booked">>])
                 ELSE F[i-1]
    IN  F[N]

\* TimetableGenerator._detect_constraint_violations
_detect_constraint_violations(g, periods) ==
    LET Count(P(_)) == Len(SelectSeq(periods, P))
        section_days ==
            FirstSeen([i \in DOMAIN periods |->
                         <<periods[i].section_id, periods[i].day_of_week>>])
        MaxPeriods(key) ==
            LET In(p) == <<p.section_id, p.day_of_week>> = key
                n == Count(In)
            IN  IF n > g.constraints.max_periods_per_day
                THEN <<[type |-> "max_periods_violation",
                        severity |-> "warning",
                        section_id |-> key[1],
                        day |-> key[2],
                        message |-> <<"Section", key[1], "has", n,
                                      "periods on day", key[2]>>]>>
                ELSE <<>>
        HasTeacher(p) == p.teacher_id # None
        staffed == SelectSeq(periods, HasTeacher)
        teachers == FirstSeen([i \in DOMAIN staffed |-> staffed[i].teacher_id])
        Overwork(teacher_id) ==
            LET Of(p) == p.teacher_id = teacher_id
                mine == SelectSeq(periods, Of)
                days == FirstSeen([i \in DOMAIN mine |-> mine[i].day_of_week])
                PerDay(day) ==
                    LET On(p) == p.day_of_week = day
                        n == Len(SelectSeq(mine, On))
                    IN  IF n > g.constraints.max_teacher_periods_per_day
                        THEN <<[type |-> "teacher_overwork",
                                severity |-> "warning",
                                teacher_id |-> teacher_id,
                                day |-> day,
                                message |-> <<"Teacher", teacher_id, "has", n,
                                              "periods on day", day>>]>>
                        ELSE <<>>
                PerWeek ==
                    IF Len(mine) > g.constraints.max_teacher_periods_per_week
                    THEN <<[type |-> "teacher_overwork",
                            severity |-> "warning",
                            teacher_id |-> teacher_id,
                            message |-> <<"Teacher", teacher_id, "has",
                                          Len(mine), "periods per week">>]>>
                    ELSE <<>>
            IN  Flatten([d \in DOMAIN days |-> PerDay(days[d])]) \o PerWeek
    IN  Flatten([k \in DOMAIN section_days |-> MaxPeriods(section_days[k])])
        \o Flatten([t \in DOMAIN teachers |-> Overwork(teachers[t])])

\* TimetableGenerator._calculate_distribution_score, in twentieths
\* (each back-to-back pair costs 0.05).
_calculate_distribution_score(g, periods) ==
    LET keys == FirstSeen([i \in DOMAIN periods |->
                             <<periods[i].section_id, periods[i].subject_id>>])
        Penalty(key) ==
            LET In(p) == <<p.section_id, p.subject_id>> = key
                group == SelectSeq(periods, In)
                days == [i \in DOMAIN group |-> group[i].day_of_week]
            IN  IF g.constraints.avoid_back_to_back_subjects
                THEN Cardinality({i \in 1..(Len(days) - 1) :
                        days[i] - days[i+1] = 1 \/ days[i+1] - days[i] = 1})
                ELSE 0
    IN  Max(0, 20 - SumSeq([k \in DOMAIN keys |-> Penalty(keys[k])]))

\* TimetableGenerator._calculate_workload_balance, as the fraction
\* <<numerator, denominator>> of 1/(1 + variance/100): with n teachers of
\* workloads w, variance = (n*sum(w^2) - sum(w)^2) / n^2.
_calculate_workload_balance(periods) ==
    LET HasTeacher(p) == p.teacher_id # None
        staffed == SelectSeq(periods, HasTeacher)
        teachers == FirstSeen([i \in DOMAIN staffed |-> staffed[i].teacher_id])
        n == Len(teachers)
        Load(t) == LET Of(p) == p.teacher_id = t IN Len(SelectSeq(periods, Of))
        workloads == [i \in DOMAIN teachers |-> Load(teachers[i])]
        squares == [i \in DOMAIN workloads |-> workloads[i] * workloads[i]]
        V == (n * SumSeq(squares)) - (SumSeq(workloads) * SumSeq(workloads))
    IN  IF n = 0 THEN <<1, 1>>
        ELSE <<100 * n * n, (100 * n * n) + V>>

\* The conflict list _calculate_fitness stores on the solution
\* (service.py 290-298).
DetectConflicts(g, periods) ==
    _detect_teacher_overlaps(periods)
    \o _detect_room_double_bookings(periods)
    \o _detect_constraint_violations(g, periods)

\* Faulty variant of Score: the sum is not clamped.
Score_unclamped(n_conflicts, distribution20, balance) ==
    LET tenfold == 10 * balance[1]
        h == 100 - (10 * n_conflicts) + distribution20
             + (tenfold \div balance[2])
        r == tenfold % balance[2]
        d == Gcd(r, balance[2])
    IN  [hundredths |-> h, num |-> r \div d, den |-> balance[2] \div d,
         ulp |-> 0]

\* Faulty variant of Score: the sum is computed exactly, without the
\* rounding of binary64.
Score_exact(n_conflicts, distribution20, balance) ==
    LET tenfold == 10 * balance[1]
        h == 100 - (10 * n_conflicts) + distribution20
             + (tenfold \div balance[2])
        r == tenfold % balance[2]
        d == Gcd(r, balance[2])
    IN  IF h >= 100 THEN One
        ELSE IF h < 0 \/ (h = 0 /\ r = 0) THEN Zero
        ELSE [hundredths |-> h, num |-> r \div d, den |-> balance[2] \div d,
              ulp |-> 0]

\* Lines 300-313 of _calculate_fitness: 1.0 - 0.1*|conflicts|
\* + 0.2*distribution + 0.1*balance, clamped to [0, 1].  The binary64 sum
\* 1.0 - 3*0.1 + 0.2 + 0.1 is 0.9999999999999999, one unit in the last
\* place under the exact sum 1.0; this is the one place in the modelled range
\* where rounding separates two scores that are equal as rationals.
Score(n_conflicts, distribution20, balance) ==
    LET tenfold == 10 * balance[1]
        h == 100 - (10 * n_conflicts) + distribution20
             + (tenfold \div balance[2])
        r == tenfold % balance[2]
        d == Gcd(r, balance[2])
    IN  IF h > 100 \/ (h = 100 /\ r > 0) THEN One
        ELSE IF h = 100
             THEN [hundredths |-> 100, num |-> 0, den |-> 1,
                   ulp |-> IF n_conflicts = 3 /\ distribution20 = 20
                              /\ balance[1] = balance[2]
                           THEN -1 ELSE 0]
        ELSE IF h < 0 \/ (h = 0 /\ r = 0) THEN Zero
        ELSE [hundredths |-> h, num |-> r \div d, den |-> balance[2] \div d,
              ulp |-> 0]

\* TimetableGenerator._calculate_fitness: the score it returns.
_calculate_fitness(g, solution) ==
    Score(Len(DetectConflicts(g, solution.periods)),
          _calculate_distribution_score(g, solution.periods),
          _calculate_workload_balance(solution.periods))

\* Faulty variant of Evaluate: a solution that already carries a score,
\* as a copy of a parent does, is not evaluated again.
Evaluate_unscored(g, solution) ==
    IF solution.fitness_score # Zero THEN solution
    ELSE [solution EXCEPT !.conflicts = DetectConflicts(g, solution.periods),
                          !.fitness_score = _calculate_fitness(g, solution)]

\* solution.fitness_score = self._calculate_fitness(solution): the call
\* also overwrites solution.conflicts (service.py 114, 148-149, 298).
Evaluate(g, solution) ==
    [solution EXCEPT !.conflicts = DetectConflicts(g, solution.periods),
                     !.fitness_score = _calculate_fitness(g, solution)]

\* list.sort(key=lambda x: x.fitness_score, reverse=True): stable, so
\* equally fit solutions keep their relative order.
RECURSIVE SortByFitness(_)
SortByFitness(pop) ==
    IF pop = <<>> THEN <<>>
    ELSE LET rest == SortByFitness(Tail(pop))
             x == Head(pop)
             \* x goes before the first element of rest that is not fitter
             Ahead == {i \in DOMAIN rest :
                         \A j \in 1..i : FitLess(x.fitness_score,
                                                 rest[j].fitness_score)}
             k == Cardinality(Ahead)
         IN  SubSeq(rest, 1, k) \o <<x>> \o SubSeq(rest, k + 1, Len(rest))

\* ----------------------------------------------- variation operators ----
\* The outcomes of random.random() < rate: random() lies in [0, 1).
RandomLess(rate) ==
    IF rate >= 100 THEN {TRUE} ELSE IF rate <= 0 THEN {FALSE} ELSE BOOLEAN

\* TimetableGenerator._tournament_selection: random.sample draws
\* min(tournament_size, len) distinct members in random order and max()
\* returns the first of the fittest among them.
_tournament_selection(population) ==
    LET t == Min(tournament_size, Len(population))
        samples == {s \in [1..t -> DOMAIN population] :
                       \A i, j \in 1..t : i # j => s[i] # s[j]}
        Fit(s, i) == population[s[i]].fitness_score
        Winner(s) == CHOOSE i \in 1..t :
                        /\ \A j \in 1..t : FitLeq(Fit(s, j), Fit(s, i))
                        /\ \A j \in 1..(i-1) : FitLess(Fit(s, j), Fit(s, i))
    IN  {population[s[Winner(s)]] : s \in samples}

\* random.randint(1, min(len, len) - 1) of _crossover: the empty set stands
\* for the ValueError randint raises on an empty range.
CrossoverPoints(parent1, parent2) ==
    1..(Min(Len(parent1.periods), Len(parent2.periods)) - 1)

\* Faulty variant of _crossover: the period at the crossover point is
\* dropped from the second half of each child.
_crossover_dropping(parent1, parent2, crossover_point) ==
    LET n1 == Len(parent1.periods)
        n2 == Len(parent2.periods)
        child1_periods == SubSeq(parent1.periods, 1, crossover_point)
                          \o SubSeq(parent2.periods, crossover_point + 2, n2)
        child2_periods == SubSeq(parent2.periods, 1, crossover_point)
                          \o SubSeq(parent1.periods, crossover_point + 2, n1)
    IN  <<TimetableSolution(child1_periods), TimetableSolution(child2_periods)>>

\* TimetableGenerator._crossover at a given crossover point.
_crossover(parent1, parent2, crossover_point) ==
    LET n1 == Len(parent1.periods)
        n2 == Len(parent2.periods)
        child1_periods == SubSeq(parent1.periods, 1, crossover_point)
                          \o SubSeq(parent2.periods, crossover_point + 1, n2)
        child2_periods == SubSeq(parent2.periods, 1, crossover_point)
                          \o SubSeq(parent1.periods, crossover_point + 1, n1)
    IN  <<TimetableSolution(child1_periods), TimetableSolution(child2_periods)>>

\* Faulty variant of Swapped: the second assignment of the swap is lost,
\* periods[idx1] = periods[idx2] alone.
Swapped_overwriting(periods) ==
    {[periods EXCEPT ![idx[1]] = periods[idx[2]]] :
        idx \in {x \in (DOMAIN periods) \X (DOMAIN periods) : x[1] # x[2]}}

\* One swap of _mutate (service.py 504-505).
Swapped(periods) ==
    {[periods EXCEPT ![idx[1]] = periods[idx[2]], ![idx[2]] = periods[idx[1]]] :
        idx \in {x \in (DOMAIN periods) \X (DOMAIN periods) : x[1] # x[2]}}

RECURSIVE SwappedTimes(_, _)
SwappedTimes(periods, num_swaps) ==
    IF num_swaps = 0 THEN {periods}
    ELSE UNION {Swapped(q) : q \in SwappedTimes(periods, num_swaps - 1)}

\* service.py 500-505
SwapPeriods(periods) ==
    IF Len(periods) > 1
    THEN UNION {SwappedTimes(periods, num_swaps) :
                   num_swaps \in 1..Min(max_swaps, Len(periods) \div 2)}
    ELSE {periods}

\* service.py 508-512: each period keeps or re-draws its teacher and room.
RECURSIVE Resampled(_, _)
Resampled(g, periods) ==
    IF periods = <<>> THEN {<<>>}
    ELSE LET period == Head(periods)
         IN  {<<[period EXCEPT !.teacher_id = teacher_id,
                               !.room_id = room_id]>> \o rest :
                 teacher_id \in {period.teacher_id}
                    \cup _select_teacher_for_subject(g, period.subject_id),
                 room_id \in {period.room_id} \cup _select_room(g),
                 rest \in Resampled(g, Tail(periods))}

\* TimetableGenerator._mutate: the mutated copies it can return.
_mutate(g, solution) ==
    {[solution EXCEPT !.periods = periods] :
        periods \in UNION {Resampled(g, q) : q \in SwapPeriods(solution.periods)}}

\* service.py 142-145: mutate with probability mutation_rate.
MaybeMutate(g, rate, child) ==
    UNION {IF m THEN _mutate(g, child) ELSE {child} : m \in RandomLess(rate)}

\* ------------------------------------------------------- wire format ----
\* One entry of solution_to_dict's 'periods' (service.py 519-531).
PeriodToDict(p) ==
    [day_of_week |-> p.day_of_week,
     period_number |-> p.period_number,
     start_time |-> p.start_time,
     end_time |-> p.end_time,
     subject_id |-> p.subject_id,
     teacher_id |-> IF p.teacher_id = None THEN "null" ELSE p.teacher_id,
     room_id |-> IF p.room_id = None THEN "null" ELSE p.room_id,
     section_id |-> p.section_id]

\* Faulty variant of DictToPeriod: the room is read under a key the entry
\* does not carry, so p.get(...) yields None.
DictToPeriodWrongRoomKey(d) ==
    [day_of_week |-> d.day_of_week,
     period_number |-> d.period_number,
     start_time |-> d.start_time,
     end_time |-> d.end_time,
     subject_id |-> d.subject_id,
     teacher_id |-> IF d.teacher_id = "null" THEN None ELSE d.teacher_id,
     room_id |-> None,
     section_id |-> d.section_id]

\* Period(...) built from a request entry (routes.py 199-211).
DictToPeriod(d) ==
    [day_of_week |-> d.day_of_week,
     period_number |-> d.period_number,
     start_time |-> d.start_time,
     end_time |-> d.end_time,
     subject_id |-> d.subject_id,
     teacher_id |-> IF d.teacher_id = "null" THEN None ELSE d.teacher_id,
     room_id |-> IF d.room_id = "null" THEN None ELSE d.room_id,
     section_id |-> d.section_id]

\* Faulty variant of solution_to_dict: critical_conflicts counts the
\* conflicts of severity 'critical', which no detector emits.
solution_to_dict_critical(solution) ==
    LET IsCritical(c) == c.severity = "critical"
    IN  [periods |-> [i \in DOMAIN solution.periods |->
                         PeriodToDict(solution.periods[i])],
         fitness_score |-> solution.fitness_score,
         conflicts |-> solution.conflicts,
         statistics |->
            [total_periods |-> Len(solution.periods),
             conflict_count |-> Len(solution.conflicts),
             critical_conflicts |->
                Len(SelectSeq(solution.conflicts, IsCritical))]]

\* TimetableGenerator.solution_to_dict
solution_to_dict(solution) ==
    LET IsError(c) == c.severity = "error"
    IN  [periods |-> [i \in DOMAIN solution.periods |->
                         PeriodToDict(solution.periods[i])],
         fitness_score |-> solution.fitness_score,
         conflicts |-> solution.conflicts,
         statistics |->
            [total_periods |-> Len(solution.periods),
             conflict_count |-> Len(solution.conflicts),
             critical_conflicts |-> Len(SelectSeq(solution.conflicts, IsError))]]

\* analyze_timetable (routes.py 180-267) on a request carrying the given
\* period entries and the context and constraints of req.
analyze_timetable(req, periods) ==
    LET g == TimetableGenerator(req)
        period_objects == [i \in DOMAIN periods |-> DictToPeriod(periods[i])]
        solution == Evaluate(g, TimetableSolution(period_objects))
        types == FirstSeen([i \in DOMAIN solution.conflicts |->
                              solution.conflicts[i].type])
        OfType(t) == LET Is(c) == c.type = t
                     IN  Len(SelectSeq(solution.conflicts, Is))
        teacher_ids == {solution.periods[i].teacher_id :
                           i \in DOMAIN solution.periods} \ {None}
        room_ids == {solution.periods[i].room_id :
                        i \in DOMAIN solution.periods} \ {None}
    IN  [fitness_score |-> solution.fitness_score,
         distribution_score |->
            _calculate_distribution_score(g, solution.periods),
         workload_balance_score |->
            _calculate_workload_balance(solution.periods),
         total_conflicts |-> Len(solution.conflicts),
         conflicts_by_type |-> [i \in DOMAIN types |->
                                   <<types[i], OfType(types[i])>>],
         conflicts |-> solution.conflicts,
         statistics |->
            [total_periods |-> Len(solution.periods),
             total_sections |-> Cardinality({solution.periods[i].section_id :
                                               i \in DOMAIN solution.periods}),
             total_teachers |-> Cardinality(teacher_ids),
             total_rooms |-> Cardinality(room_ids)]]

\* ---------------------------------------------------------- requests ----
\* Constraint(): the defaults of service.py 30-36.
DefaultConstraint ==
    [max_periods_per_day |-> 8,
     max_consecutive_periods |-> 3,
     avoid_back_to_back_subjects |-> TRUE,
     max_teacher_periods_per_day |-> 6,
     max_teacher_periods_per_week |-> 25,
     lunch_break_required |-> TRUE,
     min_free_periods_per_teacher |-> 2]

\* Constraints under which every section-day and every staffed teacher is
\* over its limit.
StrictConstraint ==
    [DefaultConstraint EXCEPT !.max_periods_per_day = 0,
                              !.max_teacher_periods_per_day = 0,
                              !.max_teacher_periods_per_week = 0]

Timing(total_periods, start_time, end_time) ==
    [school_days |-> 2,  \* 1 << 1: Monday only
     period_duration_minutes |-> 45,
     total_periods |-> total_periods,
     start_time |-> start_time,
     end_time |-> end_time]

Section(id, subjects) == [id |-> id, subjects |-> subjects]
Teacher(id, subjects) ==
    [id |-> id, subjects |-> subjects, can_teach_all |-> FALSE]
Room(id, is_available) == [id |-> id, is_available |-> is_available]
Subject(id) == [id |-> id]
Break(start_time, end_time) ==
    [days |-> 2, start_time |-> start_time, end_time |-> end_time]

\* The request bodies of /generate that are modelled, by name; the
\* evolution parameters are added by Requests.
Body(name) ==
    CASE name = "minimal" ->
           [sections |-> <<Section("S1", <<"MATH">>)>>,
            teachers |-> <<Teacher("T1", <<"MATH">>)>>,
            subjects |-> <<Subject("MATH")>>,
            rooms |-> <<Room("R1", TRUE)>>,
            school_timing |-> Timing(1, <<8, 0, 0>>, <<15, 0, 0>>),
            break_schedules |-> <<>>,
            constraints |-> DefaultConstraint]
      [] name = "forced_overlap" ->
           [sections |-> <<Section("S1", <<>>), Section("S2", <<>>)>>,
            teachers |-> <<Teacher("T1", <<"ENG">>)>>,
            subjects |-> <<Subject("ENG")>>,
            rooms |-> <<>>,
            school_timing |-> Timing(1, <<8, 0, 0>>, <<15, 0, 0>>),
            break_schedules |-> <<>>,
            constraints |-> DefaultConstraint]
      [] name = "forced_overlap_room" ->
           [sections |-> <<Section("S1", <<>>), Section("S2", <<>>)>>,
            teachers |-> <<Teacher("T1", <<"ENG">>)>>,
            subjects |-> <<Subject("ENG")>>,
            rooms |-> <<Room("R1", TRUE)>>,
            school_timing |-> Timing(1, <<8, 0, 0>>, <<15, 0, 0>>),
            break_schedules |-> <<>>,
            constraints |-> DefaultConstraint]
      [] name = "break_skip" ->
           [sections |-> <<Section("S1", <<>>)>>,
            teachers |-> <<Teacher("T1", <<"MATH">>)>>,
            subjects |-> <<Subject("MATH")>>,
            rooms |-> <<Room("R1", TRUE)>>,
            school_timing |-> Timing(3, <<8, 0>>, <<15, 0>>),
            break_schedules |-> <<Break(<<8, 45>>, <<9, 0>>)>>,
            constraints |-> DefaultConstraint]
      [] name = "tight_day" ->
           [sections |-> <<Section("S1", <<>>)>>,
            teachers |-> <<Teacher("T1", <<"MATH">>)>>,
            subjects |-> <<Subject("MATH")>>,
            rooms |-> <<Room("R1", TRUE)>>,
            school_timing |-> Timing(2, <<8, 0, 0>>, <<9, 0, 0>>),
            break_schedules |-> <<Break(<<8, 30, 0>>, <<8, 45, 0>>)>>,
            constraints |-> DefaultConstraint]
      [] name = "unknown_subject" ->
           [sections |-> <<Section("S1", <<"ART">>)>>,
            teachers |-> <<Teacher("T1", <<"MATH">>)>>,
            subjects |-> <<Subject("MATH")>>,
            rooms |-> <<Room("R1", FALSE)>>,
            school_timing |-> Timing(2, <<8, 0, 0>>, <<15, 0, 0>>),
            break_schedules |-> <<>>,
            constraints |-> DefaultConstraint]
      [] name = "three_sections" ->
           [sections |-> <<Section("S1", <<>>), Section("S2", <<>>),
                           Section("S3", <<>>)>>,
            teachers |-> <<Teacher("T1", <<"ENG">>)>>,
            subjects |-> <<Subject("ENG")>>,
            rooms |-> <<Room("R1", TRUE)>>,
            school_timing |-> Timing(1, <<8, 0, 0>>, <<15, 0, 0>>),
            break_schedules |-> <<>>,
            constraints |-> DefaultConstraint]
      [] name = "two_teachers" ->
           [sections |-> <<Section("S1", <<>>), Section("S2", <<>>)>>,
            teachers |-> <<Teacher("T1", <<"ENG">>), Teacher("T2", <<"ENG">>)>>,
            subjects |-> <<Subject("ENG")>>,
            rooms |-> <<>>,
            school_timing |-> Timing(1, <<8, 0, 0>>, <<15, 0, 0>>),
            break_schedules |-> <<>>,
            constraints |-> StrictConstraint]
      [] name = "unstaffed" ->
           [sections |-> <<Section("S1", <<>>)>>,
            teachers |-> <<Teacher("T1", <<"MATH">>)>>,
            subjects |-> <<Subject("MATH"), Subject("ART")>>,
            rooms |-> <<>>,
            school_timing |-> Timing(3, <<8, 0, 0>>, <<15, 0, 0>>),
            break_schedules |-> <<>>,
            constraints |-> StrictConstraint]

BodyNames ==
    {"minimal", "forced_overlap", "forced_overlap_room", "break_skip",
     "tight_day", "unknown_subject", "three_sections", "two_teachers"}

\* <<population_size, elite_size>> of the modelled requests: the defaults
\* (100, 20) scaled down, elite_size < population_size as in the defaults,
\* and the edge cases of no elite and of an elite filling the population.
Sizes == {<<2, 1>>, <<3, 1>>, <<2, 0>>, <<1, 1>>}

\* <<<<population_size, elite_size>>, generations>> of the modelled
\* requests: populations of three are run for one generation less.
Schedules ==
    {schedule \in Sizes \X (0..MaxGenerations) :
        schedule[1][1] < 3 \/ schedule[2] < MaxGenerations}

GenerateRequests ==
    {[endpoint |-> "generate",
      sections |-> Body(name).sections,
      teachers |-> Body(name).teachers,
      subjects |-> Body(name).subjects,
      rooms |-> Body(name).rooms,
      school_timing |-> Body(name).school_timing,
      break_schedules |-> Body(name).break_schedules,
      constraints |-> Body(name).constraints,
      population_size |-> schedule[1][1],
      generations |-> schedule[2],
      mutation_rate |-> 10,
      crossover_rate |-> 80,
      elite_size |-> schedule[1][2]] :
        name \in BodyNames, schedule \in Schedules}

\* A JSON object without one of its keys.
Without(d, key) == [k \in DOMAIN d \ {key} |-> d[k]]

\* Bodies of /generate that are run with one evolution schedule: a
\* required input empty or absent, a time string datetime.time rejects
\* ("25:00:00", "09:60"), a period duration of zero minutes, and a subject
\* that no teacher teaches beside one that has a teacher.
EdgeBodies ==
    {Body("unstaffed"),
     [Body("minimal") EXCEPT !.sections = <<>>],
     Without(Body("minimal"), "teachers"),
     [Body("minimal") EXCEPT !.subjects = <<>>],
     [Body("minimal") EXCEPT !.school_timing = EmptyDict],
     Without(Without(Body("minimal"), "sections"), "school_timing"),
     [Body("minimal") EXCEPT !.school_timing.start_time = <<25, 0, 0>>],
     [Body("break_skip") EXCEPT
         !.break_schedules = <<Break(<<8, 45>>, <<9, 60>>)>>],
     [Body("minimal") EXCEPT !.school_timing.total_periods = 2,
                             !.school_timing.period_duration_minutes = 0]}

EdgeRequests ==
    {body @@ [endpoint |-> "generate",
              population_size |-> 2,
              generations |-> 1,
              mutation_rate |-> 10,
              crossover_rate |-> 80,
              elite_size |-> 1] : body \in EdgeBodies}

\* One entry of the 'periods' of a request body.
Entry(day, number, section_id, teacher_id, room_id) ==
    [day_of_week |-> day,
     period_number |-> number,
     start_time |-> IF number = 1 THEN 80000 ELSE 84500,
     end_time |-> IF number = 1 THEN 84500 ELSE 93000,
     subject_id |-> "ENG",
     teacher_id |-> teacher_id,
     room_id |-> room_id,
     section_id |-> section_id]

\* Timetables posted to /optimize in the context of
\* "forced_overlap_room": none, one period, the two sections in the same
\* slot with the only teacher and room, and that with a section booked
\* twice.
OptimizeInputs ==
    {<<>>,
     <<Entry(1, 1, "S1", "T1", "R1")>>,
     <<Entry(1, 1, "S1", "T1", "R1"), Entry(1, 1, "S2", "T1", "R1")>>,
     <<Entry(1, 1, "S1", "T1", "R1"), Entry(1, 1, "S2", "T1", "R1"),
       Entry(1, 1, "S1", "T1", "R1")>>}

\* The conflict-free timetable of "two_teachers": one teacher per section.
OneTeacherEach ==
    <<Entry(1, 1, "S1", "T1", "null"), Entry(1, 1, "S2", "T2", "null")>>

\* Calls of /optimize: the inputs above, and the conflict-free timetable in
\* the context of "two_teachers" with no 'constraints' in the body.
OptimizeRequests ==
    {Body("forced_overlap_room")
        @@ [endpoint |-> "optimize", periods |-> periods] :
        periods \in OptimizeInputs}
    \cup {Without(Body("two_teachers"), "constraints")
             @@ [endpoint |-> "optimize", periods |-> OneTeacherEach]}

\* Context of the timetables posted to /analyze: one section, one subject
\* that both teachers teach, two periods a day from Monday to Friday.
WeekBody ==
    [sections |-> <<Section("S1", <<>>)>>,
     teachers |-> <<Teacher("T1", <<"ENG">>), Teacher("T2", <<"ENG">>)>>,
     subjects |-> <<Subject("ENG")>>,
     rooms |-> <<>>,
     school_timing |-> [Timing(2, <<8, 0, 0>>, <<15, 0, 0>>)
                           EXCEPT !.school_days = 62],
     break_schedules |-> <<>>,
     constraints |-> DefaultConstraint]

\* The ten periods of the week, the teacher of each taken from teachers.
Week(teachers) ==
    [i \in 1..10 |-> Entry(((i - 1) \div 2) + 1, ((i - 1) % 2) + 1, "S1",
                           teachers[i], "null")]

\* Timetables posted to /analyze: none, the week with 8 periods for T1 and
\* 2 for T2, the week with 5 periods each, eight bookings of one teacher
\* and one room in one slot, and the two orders of the seven periods below.
Unbalanced == Week(<<"T1", "T1", "T1", "T1", "T1", "T1", "T1", "T1", "T2", "T2">>)
Balanced == Week(<<"T1", "T2", "T1", "T2", "T1", "T2", "T1", "T2", "T1", "T2">>)
Crowded == [i \in 1..8 |-> Entry(1, 1, "S1", "T1", "R1")]

\* Seven periods of S1 with T1: Monday, Wednesday, and five bookings of the
\* first slot of Tuesday, listed out of weekday order; and the same
\* periods listed in weekday order.
Shuffled ==
    <<Entry(1, 1, "S1", "T1", "null"), Entry(3, 1, "S1", "T1", "null")>>
    \o [i \in 1..5 |-> Entry(2, 1, "S1", "T1", "null")]
InWeekOrder ==
    <<Entry(1, 1, "S1", "T1", "null")>>
    \o [i \in 1..5 |-> Entry(2, 1, "S1", "T1", "null")]
    \o <<Entry(3, 1, "S1", "T1", "null")>>
AnalyzeInputs ==
    {<<>>, Unbalanced, Balanced, Crowded, Shuffled, InWeekOrder}

AnalyzeRequests ==
    {WeekBody @@ [endpoint |-> "analyze", periods |-> periods] :
        periods \in AnalyzeInputs}

Requests ==
    GenerateRequests \cup EdgeRequests \cup OptimizeRequests
    \cup AnalyzeRequests

\* ----------------------------------------------------------- routes ----
\* Constraint(...) as the routes build it: the listed keys are read from
\* the 'constraints' of the body, every other field keeps its default.
Constraint(constraints_data, keys) ==
    [field \in DOMAIN DefaultConstraint |->
        IF field \in keys
        THEN Get(constraints_data, field, DefaultConstraint[field])
        ELSE DefaultConstraint[field]]

\* What a handler extracts from the body (routes.py 18-42, 101-107,
\* 129-136, 154-160, 186-192, 216-223).
Data(req) ==
    [endpoint |-> req.endpoint,
     periods |-> Get(req, "periods", <<>>),
     sections |-> Get(req, "sections", <<>>),
     teachers |-> Get(req, "teachers", <<>>),
     subjects |-> Get(req, "subjects", <<>>),
     rooms |-> Get(req, "rooms", <<>>),
     school_timing |-> Get(req, "school_timing", EmptyDict),
     break_schedules |-> Get(req, "break_schedules", <<>>),
     constraints |->
        Constraint(Get(req, "constraints", EmptyDict),
                   IF req.endpoint = "generate"
                   THEN DOMAIN DefaultConstraint
                   ELSE {"max_periods_per_day", "max_consecutive_periods",
                         "avoid_back_to_back_subjects",
                         "max_teacher_periods_per_day",
                         "max_teacher_periods_per_week"}),
     population_size |-> IF req.endpoint = "optimize" THEN OptimizePopulation
                         ELSE Get(req, "population_size", 100),
     generations |-> IF req.endpoint # "optimize"
                     THEN Get(req, "generations", 1000)
                     ELSE IF OptimizePopulation < 3 THEN MaxGenerations
                     ELSE MaxGenerations - 1,
     mutation_rate |-> IF req.endpoint = "optimize" THEN 15
                       ELSE Get(req, "mutation_rate", 10),
     crossover_rate |-> IF req.endpoint = "optimize" THEN 80
                        ELSE Get(req, "crossover_rate", 80),
     elite_size |-> IF req.endpoint = "optimize" THEN OptimizeElite
                    ELSE Get(req, "elite_size", 20)]

\* Faulty variant of Validation: generate_timetable does not test teachers.
Validation_without_teachers(d) ==
    IF d.endpoint = "generate"
    THEN IF d.sections = <<>> THEN "sections are required"
         ELSE IF d.subjects = <<>> THEN "subjects are required"
         ELSE IF DOMAIN d.school_timing = {} THEN "school_timing is required"
         ELSE None
    ELSE IF d.periods # <<>> THEN None
    ELSE IF d.endpoint = "optimize" THEN "existing periods are required"
    ELSE "periods are required"

\* The message of the 400 response of a handler's validation, None when
\* the body passes (routes.py 45-52, 109-110, 194-195).
Validation(d) ==
    IF d.endpoint = "generate"
    THEN IF d.sections = <<>> THEN "sections are required"
         ELSE IF d.teachers = <<>> THEN "teachers are required"
         ELSE IF d.subjects = <<>> THEN "subjects are required"
         ELSE IF DOMAIN d.school_timing = {} THEN "school_timing is required"
         ELSE None
    ELSE IF d.periods # <<>> THEN None
    ELSE IF d.endpoint = "optimize" THEN "existing periods are required"
    ELSE "periods are required"

\* except Exception: 500 (routes.py 90-92, 175-177, 269-271).
ServerError == [status |-> 500, error |-> "ValueError"]

NoResponse == [status |-> 0]

\* The 200 response of generate_timetable and of optimize_timetable
\* (routes.py 77-88, 162-173).
Response(d, initial, solution) ==
    IF d.endpoint = "generate"
    THEN [status |-> 200,
          success |-> TRUE,
          timetable |-> solution_to_dict(solution),
          generation_params |->
             [population_size |-> d.population_size,
              generations |-> d.generations,
              mutation_rate |-> d.mutation_rate,
              crossover_rate |-> d.crossover_rate]]
    ELSE [status |-> 200,
          success |-> TRUE,
          optimized_timetable |-> solution_to_dict(solution),
          improvement |->
             [initial_fitness |-> initial.fitness_score,
              final_fitness |-> solution.fitness_score,
              initial_conflicts |-> Len(initial.conflicts),
              final_conflicts |-> Len(solution.conflicts)]]

\* Period objects of the entries of a body's 'periods' (routes.py 114-126,
\* 199-211).
PeriodObjects(periods) == [i \in DOMAIN periods |-> DictToPeriod(periods[i])]

\* Faulty variant of InitialPopulations: optimize_timetable seeds the
\* population, its first member is the supplied timetable.
InitialPopulations_seeded(d) ==
    LET drawn == _initialize_population(TimetableGenerator(d),
                                        d.population_size)
    IN  IF d.endpoint = "optimize" /\ d.population_size > 0
        THEN {[initial EXCEPT
                  ![1] = TimetableSolution(PeriodObjects(d.periods))] :
                 initial \in drawn}
        ELSE drawn

\* The populations generate can start from: those of
\* _initialize_population (service.py 110), for generate_timetable
\* (routes.py 68-74) and for optimize_timetable (routes.py 154-160) alike.
InitialPopulations(d) ==
    _initialize_population(TimetableGenerator(d), d.population_size)

\* ------------------------------------------------------ state machine ----
VARIABLES
    request,               \* the call: its endpoint and its JSON body
    pc,                    \* position in the handler and in generate
    population,            \* generate's population
    new_population,        \* generate's new_population
    generation,            \* iterations of the evolution loop completed
    best_fitness_history,  \* generate's best_fitness_history
    best_solution,         \* what generate returned, None before
    analysis,              \* what analyze returned for it, None before
    response,              \* the handler's HTTP response, NoResponse before
    initial_solution,      \* optimize_timetable's initial_solution
    selection              \* what _tournament_selection returned, None before

vars == <<request, pc, population, new_population, generation,
          best_fitness_history, best_solution, analysis, response,
          initial_solution, selection>>

data == Data(request)
generator == TimetableGenerator(data)

Init ==
    /\ request \in Requests
    /\ pc = "received"
    /\ population = <<>>
    /\ new_population = <<>>
    /\ generation = 0
    /\ best_fitness_history = <<>>
    /\ best_solution = None
    /\ analysis = None
    /\ response = NoResponse
    /\ initial_solution = None
    /\ selection = None

\* A handler's validation fails: 400, nothing is built.
Reject ==
    /\ pc = "received"
    /\ Validation(data) # None
    /\ response' = [status |-> 400, error |-> Validation(data)]
    /\ pc' = "rejected"
    /\ UNCHANGED <<selection, request, population, new_population, generation,
                   best_fitness_history, best_solution, analysis,
                   initial_solution>>

\* generate_timetable and optimize_timetable up to the call of generate
\* (routes.py 57-65, 114-151): the generator is built; optimize_timetable
\* evaluates the supplied periods as initial_solution.
Construct ==
    /\ pc = "received"
    /\ data.endpoint \in {"generate", "optimize"}
    /\ Validation(data) = None
    /\ ~TimetableGenerator_raises(data)
    /\ initial_solution' =
          IF data.endpoint = "optimize"
          THEN Evaluate(generator,
                        TimetableSolution(PeriodObjects(data.periods)))
          ELSE None
    /\ pc' = "start"
    /\ UNCHANGED <<selection, request, population, new_population, generation,
                   best_fitness_history, best_solution, analysis, response>>

\* TimetableGenerator(...) raises in a handler: 500.
ConstructRaises ==
    /\ pc = "received"
    /\ Validation(data) = None
    /\ TimetableGenerator_raises(data)
    /\ response' = ServerError
    /\ pc' = "failed"
    /\ UNCHANGED <<selection, request, population, new_population, generation,
                   best_fitness_history, best_solution, analysis,
                   initial_solution>>

\* analyze_timetable (routes.py 179-267) on a body that passes validation.
AnalyzeRequest ==
    /\ pc = "received"
    /\ data.endpoint = "analyze"
    /\ Validation(data) = None
    /\ ~TimetableGenerator_raises(data)
    /\ response' = [status |-> 200,
                    success |-> TRUE,
                    analysis |-> analyze_timetable(data, data.periods)]
    /\ pc' = "answered"
    /\ UNCHANGED <<selection, request, population, new_population, generation,
                   best_fitness_history, best_solution, analysis,
                   initial_solution>>

\* generate, service.py 110: _initialize_population raises, the handler
\* answers 500.
InitializePopulationRaises ==
    /\ pc = "start"
    /\ _initialize_population_raises(generator, data.population_size)
    /\ response' = ServerError
    /\ pc' = "failed"
    /\ UNCHANGED <<selection, request, population, new_population, generation,
                   best_fitness_history, best_solution, analysis,
                   initial_solution>>

\* generate, service.py 110-119: random population, evaluated and sorted.
InitializePopulation ==
    /\ pc = "start"
    /\ ~_initialize_population_raises(generator, data.population_size)
    /\ \E initial \in InitialPopulations(data) :
          population' = SortByFitness([i \in DOMAIN initial |->
                                          Evaluate(generator, initial[i])])
    /\ pc' = "loop"
    /\ UNCHANGED <<selection, request, new_population, generation, best_fitness_history,
                   best_solution, analysis, response,
                   initial_solution>>

\* Faulty variant of Elite: population[-elite_size:], the tail of the
\* sorted population.
EliteTail(pop, elite_size) ==
    SubSeq(pop, Len(pop) - Min(elite_size, Len(pop)) + 1, Len(pop))

\* population[:elite_size] (service.py 124)
Elite(pop, elite_size) == SubSeq(pop, 1, Min(elite_size, Len(pop)))

\* Faulty variant of Trim: new_population[-population_size:], the last
\* population_size members.
Trim_tail(pop, population_size) ==
    SubSeq(pop, Len(pop) - Min(population_size, Len(pop)) + 1, Len(pop))

\* new_population[:population_size] (service.py 154)
Trim(pop, population_size) == SubSeq(pop, 1, Min(population_size, Len(pop)))

\* generate, service.py 122-127: a generation starts with the elite.
SelectElite ==
    /\ pc = "loop"
    /\ generation < data.generations
    /\ new_population' = Elite(population, data.elite_size)
    /\ pc' = "offspring"
    /\ UNCHANGED <<selection, request, population, generation, best_fitness_history,
                   best_solution, analysis, response,
                   initial_solution>>

\* The evaluated pairs <<child1, child2>> one pass of the offspring loop
\* can append (service.py 132-149): selection, crossover or copies,
\* mutation, evaluation.
OffspringPairs(g, d, pop) ==
    UNION {UNION {{<<child1, child2>> :
                      child1 \in {Evaluate(g, c) :
                                     c \in MaybeMutate(g, d.mutation_rate,
                                                       children[1])},
                      child2 \in {Evaluate(g, c) :
                                     c \in MaybeMutate(g, d.mutation_rate,
                                                       children[2])}} :
                  children \in
                     IF cross
                     THEN {_crossover(parent1, parent2, k) :
                              k \in CrossoverPoints(parent1, parent2)}
                     ELSE {<<parent1, parent2>>}} :
           parent1 \in _tournament_selection(pop),
           parent2 \in _tournament_selection(pop),
           cross \in RandomLess(d.crossover_rate)}

\* generate, service.py 130-151: one pass of the offspring loop.
Offspring ==
    /\ pc = "offspring"
    /\ Len(new_population) < data.population_size
    /\ \E pair \in OffspringPairs(generator, data, population) :
          new_population' = new_population \o pair
    /\ UNCHANGED <<selection, request, pc, population, generation, best_fitness_history,
                   best_solution, analysis, response,
                   initial_solution>>

\* generate, service.py 132-137: the pass draws crossover and randint
\* raises ValueError, which ends generate (routes.py 90-92 answers 500).
OffspringRaises ==
    /\ pc = "offspring"
    /\ Len(new_population) < data.population_size
    /\ \E parent1 \in _tournament_selection(population),
          parent2 \in _tournament_selection(population) :
          /\ TRUE \in RandomLess(data.crossover_rate)
          /\ CrossoverPoints(parent1, parent2) = {}
    /\ pc' = "raised"
    /\ response' = ServerError
    /\ UNCHANGED <<selection, request, population, new_population, generation,
                   best_fitness_history, best_solution, analysis,
                   initial_solution>>

\* Faulty variant of EndGeneration: the early stop looks at the fitness
\* alone.
EndGeneration_on_fitness ==
    /\ pc = "offspring"
    /\ Len(new_population) >= data.population_size
    /\ LET sorted == SortByFitness(Trim(new_population,
                                        data.population_size))
           best_fitness == sorted[1].fitness_score
       IN  /\ population' = sorted
           /\ best_fitness_history' = Append(best_fitness_history, best_fitness)
           /\ pc' = IF FitLeq([hundredths |-> 95, num |-> 0, den |-> 1,
                               ulp |-> 0], best_fitness)
                    THEN "break" ELSE "loop"
    /\ generation' = generation + 1
    /\ UNCHANGED <<selection, request, new_population, best_solution, analysis, response,
                   initial_solution>>

\* generate, service.py 153-169: truncate, sort, record, test for an early
\* stop.
EndGeneration ==
    /\ pc = "offspring"
    /\ Len(new_population) >= data.population_size
    /\ LET sorted == SortByFitness(Trim(new_population,
                                        data.population_size))
           best_fitness == sorted[1].fitness_score
       IN  /\ population' = sorted
           /\ best_fitness_history' = Append(best_fitness_history, best_fitness)
           /\ pc' = IF FitLeq([hundredths |-> 95, num |-> 0, den |-> 1,
                               ulp |-> 0], best_fitness)
                       /\ Len(sorted[1].conflicts) = 0
                    THEN "break" ELSE "loop"
    /\ generation' = generation + 1
    /\ UNCHANGED <<selection, request, new_population, best_solution, analysis, response,
                   initial_solution>>

\* generate, service.py 171-175: the loop is over, the fittest is
\* returned, and the handler answers 200 with it.
Return ==
    /\ \/ pc = "break"
       \/ pc = "loop" /\ generation >= data.generations
    /\ best_solution' = population[1]
    /\ response' = Response(data, initial_solution, population[1])
    /\ pc' = "returned"
    /\ UNCHANGED <<selection, request, population, new_population, generation,
                   best_fitness_history, analysis, initial_solution>>

\* The returned timetable, as serialised by generate_timetable
\* (routes.py 77), is posted to /analyze with the same context.
Analyze ==
    /\ pc = "returned"
    /\ data.endpoint = "generate"
    /\ analysis' = analyze_timetable(Data([request EXCEPT
                                              !.endpoint = "analyze"]),
                                     solution_to_dict(best_solution).periods)
    /\ pc' = "analyzed"
    /\ UNCHANGED <<selection, request, population, new_population, generation,
                   best_fitness_history, best_solution, response,
                   initial_solution>>

Next ==
    \/ Reject
    \/ Construct
    \/ ConstructRaises
    \/ AnalyzeRequest
    \/ InitializePopulationRaises
    \/ InitializePopulation
    \/ SelectElite
    \/ Offspring
    \/ OffspringRaises
    \/ EndGeneration
    \/ Return
    \/ Analyze

Spec == Init /\ [][Next]_vars

\* ------------------------------------------------ one tournament ----
\* A call of /generate whose population is larger than a tournament:
\* "two_teachers" has four possible timetables, two of fitness 0.8 and two
\* of fitness 0.7.
TournamentRequest ==
    Body("two_teachers")
       @@ [endpoint |-> "generate",
           population_size |-> TournamentPopulation,
           generations |-> 1,
           mutation_rate |-> 10,
           crossover_rate |-> 80,
           elite_size |-> 1]

\* The call has passed validation and the generator is built.
TournamentInit ==
    /\ request = TournamentRequest
    /\ pc = "start"
    /\ population = <<>>
    /\ new_population = <<>>
    /\ generation = 0
    /\ best_fitness_history = <<>>
    /\ best_solution = None
    /\ analysis = None
    /\ response = NoResponse
    /\ initial_solution = None
    /\ selection = None

\* generate, service.py 132: the first selection of the first generation.
TournamentSelection ==
    /\ pc = "loop"
    /\ generation < data.generations
    /\ selection' \in _tournament_selection(population)
    /\ pc' = "selected"
    /\ UNCHANGED <<request, population, new_population, generation,
                   best_fitness_history, best_solution, analysis, response,
                   initial_solution>>

TournamentNext ==
    \/ InitializePopulation
    \/ TournamentSelection

TournamentSpec == TournamentInit /\ [][TournamentNext]_vars

\* ------------------------------------------------------------ claims ----
\* generate has returned.
Returned == pc \in {"returned", "analyzed"}

\* Every solution the run holds: they have all been evaluated.
Held ==
    Range(population) \cup Range(new_population)
    \cup (IF Returned THEN {best_solution} ELSE {})

Ids(records) == {records[i].id : i \in DOMAIN records}

OfType(conflicts, type) ==
    LET Is(c) == c.type = type IN SelectSeq(conflicts, Is)

Tenths(n) == [hundredths |-> 10 * n, num |-> 0, den |-> 1, ulp |-> 0]

OneDayOnePeriod ==
    /\ Len(generator.school_days) = 1
    /\ generator.total_periods = 1
    /\ data.break_schedules = <<>>

\* Scenario 1 of the specification: one section, subject, teacher, room.
MinimalFeasible ==
    /\ Len(data.sections) = 1
    /\ Len(data.subjects) = 1
    /\ Len(data.teachers) = 1
    /\ Len(data.rooms) = 1 /\ data.rooms[1].is_available
    /\ OneDayOnePeriod

\* Scenario 2 of the specification: two sections share the only teacher.
ForcedOverlap ==
    /\ Len(data.sections) = 2
    /\ Len(data.subjects) = 1
    /\ Len(data.teachers) = 1
    /\ OneDayOnePeriod

\* Scenario 3 of the specification: 08:00 start, 45-minute periods, three of
\* them, one break 08:45-09:00 on Monday.
BreakSkip ==
    /\ generator.start_time = <<8, 0, 0>>
    /\ generator.period_duration = 45
    /\ generator.total_periods = 3
    /\ data.break_schedules = <<Break(<<8, 45>>, <<9, 0>>)>>
    /\ 1 \in Range(generator.school_days)

\* C1 (as claimed): on the minimal feasible input, with elite_size below
\* population_size as in the defaults and at least one generation, generate
\* does not raise, and what it returns has exactly one period, no conflict
\* and fitness 1.0.
C1_MinimalRunCompletes ==
    (/\ MinimalFeasible
     /\ data.generations >= 1
     /\ 0 < data.elite_size
     /\ data.elite_size < data.population_size)
    => /\ pc # "raised"
       /\ Returned =>
            /\ Len(best_solution.periods) = 1
            /\ best_solution.conflicts = <<>>
            /\ best_solution.fitness_score = One

\* C2: in the forced-overlap scenario every solution of every population
\* (and the returned one) has exactly one teacher_overlap conflict; without
\* rooms it is the only conflict.
C2_ForcedOverlapOneConflict ==
    ForcedOverlap =>
        \A solution \in Held :
            /\ Len(OfType(solution.conflicts, "teacher_overlap")) = 1
            /\ data.rooms = <<>> => Len(solution.conflicts) = 1

\* C2 witness: after two generations the returned solution sits in a
\* population that also holds a child of crossover and mutation scheduling
\* the same section twice.
C2_Witness ==
    /\ ForcedOverlap
    /\ generation = 2
    /\ Returned
    /\ \E solution \in Range(population) :
          /\ solution.periods[1].section_id = solution.periods[2].section_id
          /\ Len(OfType(solution.conflicts, "teacher_overlap")) = 1

\* C3 (as claimed): in the forced-overlap scenario the best fitness of the
\* population is at most 0.9 after any number of generations.
C3_ForcedOverlapFitnessAtMost09 ==
    (ForcedOverlap /\ population # <<>>) =>
        FitLeq(population[1].fitness_score, Tenths(9))

\* The <<start, end>> pairs of a section's periods on a day, in list order.
DayTimes(periods, section_id, day) ==
    LET In(p) == p.section_id = section_id /\ p.day_of_week = day
        mine == SelectSeq(periods, In)
    IN  [i \in DOMAIN mine |-> <<mine[i].start_time, mine[i].end_time>>]

\* C4 (as claimed): in the break-skip scenario the initial population gives
\* every section exactly the Monday periods 08:00-08:45, 09:00-09:45 and
\* 09:45-10:30.
C4_BreakSkipThreePeriods ==
    (BreakSkip /\ pc = "loop" /\ generation = 0) =>
        \A solution \in Range(population) :
            \A section_id \in Ids(data.sections) :
                DayTimes(solution.periods, section_id, 1)
                    = <<<<80000, 84500>>, <<90000, 94500>>, <<94500, 103000>>>>

\* The break windows that apply on a day, as <<start, end>> in seconds.
BreakWindows(day) ==
    {<<TimeSeconds(_parse_time(data.break_schedules[i].start_time)),
       TimeSeconds(_parse_time(data.break_schedules[i].end_time))>> :
        i \in {j \in DOMAIN data.break_schedules :
                 day \in Range(_extract_days_from_bitmask(
                                  data.break_schedules[j].days))}}

\* C5 (as claimed): in the returned solution the interval [start, end) of
\* every period is disjoint from every break window of its weekday.
C5_PeriodsDisjointFromBreaks ==
    Returned =>
        \A i \in DOMAIN best_solution.periods :
            LET p == best_solution.periods[i]
            IN  \A w \in BreakWindows(p.day_of_week) :
                    \/ StrSeconds(p.end_time) <= w[1]
                    \/ w[2] <= StrSeconds(p.start_time)

\* C6 (as claimed): every period of the returned solution has start < end,
\* both inside [school_timing.start_time, school_timing.end_time].
C6_PeriodsInsideSchoolDay ==
    Returned =>
        \A i \in DOMAIN best_solution.periods :
            LET p == best_solution.periods[i]
                lo == TimeSeconds(generator.start_time)
                hi == TimeSeconds(generator.end_time)
            IN  /\ StrSeconds(p.start_time) < StrSeconds(p.end_time)
                /\ lo <= StrSeconds(p.start_time)
                /\ StrSeconds(p.start_time) <= hi
                /\ lo <= StrSeconds(p.end_time)
                /\ StrSeconds(p.end_time) <= hi

\* The periods of a list booked for a teacher (or a room) in a slot, in list
\* order.
TeacherGroup(periods, teacher_id, key) ==
    LET In(p) == p.teacher_id = teacher_id /\ SlotKey(p) = key
    IN  SelectSeq(periods, In)
RoomGroup(periods, room_id, key) ==
    LET In(p) == p.room_id = room_id /\ SlotKey(p) = key
    IN  SelectSeq(periods, In)

\* The period pairs of the conflicts reported for such a booking.
TeacherReports(conflicts, teacher_id, key) ==
    LET For(c) == c.teacher_id = teacher_id /\ SlotKey(c.periods[2]) = key
        mine == SelectSeq(OfType(conflicts, "teacher_overlap"), For)
    IN  [i \in DOMAIN mine |-> mine[i].periods]
RoomReports(conflicts, room_id, key) ==
    LET For(c) == c.room_id = room_id /\ SlotKey(c.periods[2]) = key
        mine == SelectSeq(OfType(conflicts, "room_double_booking"), For)
    IN  [i \in DOMAIN mine |-> mine[i].periods]

TeacherKeys(periods) ==
    {<<periods[i].teacher_id, SlotKey(periods[i])>> :
        i \in {j \in DOMAIN periods : periods[j].teacher_id # None}}
RoomKeys(periods) ==
    {<<periods[i].room_id, SlotKey(periods[i])>> :
        i \in {j \in DOMAIN periods : periods[j].room_id # None}}

\* C7 (as claimed): a (teacher, weekday, start, end) key shared by n >= 2
\* periods of an evaluated solution gets exactly one teacher_overlap
\* conflict, referencing periods of the key; likewise for rooms.
C7_OneConflictPerKey ==
    \A solution \in Held :
        /\ \A k \in TeacherKeys(solution.periods) :
              LET group == TeacherGroup(solution.periods, k[1], k[2])
                  reports == TeacherReports(solution.conflicts, k[1], k[2])
              IN  Len(group) >= 2 =>
                    /\ Len(reports) = 1
                    /\ Range(reports[1]) \subseteq Range(group)
        /\ \A k \in RoomKeys(solution.periods) :
              LET group == RoomGroup(solution.periods, k[1], k[2])
                  reports == RoomReports(solution.conflicts, k[1], k[2])
              IN  Len(group) >= 2 =>
                    /\ Len(reports) = 1
                    /\ Range(reports[1]) \subseteq Range(group)

\* C7 (amended): a key shared by n >= 2 periods gets exactly n - 1
\* conflicts, one per period after the first, each referencing the first
\* period of the key and that later period, in list order; likewise for
\* rooms.
C7_ConflictPerLaterPeriod ==
    \A solution \in Held :
        /\ \A k \in TeacherKeys(solution.periods) :
              LET group == TeacherGroup(solution.periods, k[1], k[2])
                  reports == TeacherReports(solution.conflicts, k[1], k[2])
              IN  Len(group) >= 2 =>
                    reports = [i \in 1..(Len(group) - 1) |->
                                  <<group[1], group[i + 1]>>]
        /\ \A k \in RoomKeys(solution.periods) :
              LET group == RoomGroup(solution.periods, k[1], k[2])
                  reports == RoomReports(solution.conflicts, k[1], k[2])
              IN  Len(group) >= 2 =>
                    reports = [i \in 1..(Len(group) - 1) |->
                                  <<group[1], group[i + 1]>>]

\* C7 witness: an evaluated solution books one teacher and one room three
\* times in a slot and carries two conflicts for each.
C7_Witness ==
    \E solution \in Range(population) :
        /\ \E k \in TeacherKeys(solution.periods) :
              /\ Len(TeacherGroup(solution.periods, k[1], k[2])) = 3
              /\ Len(TeacherReports(solution.conflicts, k[1], k[2])) = 2
        /\ \E k \in RoomKeys(solution.periods) :
              /\ Len(RoomGroup(solution.periods, k[1], k[2])) = 3
              /\ Len(RoomReports(solution.conflicts, k[1], k[2])) = 2

\* C8 (as claimed): every id of every period of the returned solution is an
\* id of the request (teacher and room may be null).
C8_IdsExistInInput ==
    Returned =>
        \A i \in DOMAIN best_solution.periods :
            LET p == best_solution.periods[i]
            IN  /\ p.section_id \in Ids(data.sections)
                /\ p.subject_id \in Ids(data.subjects)
                /\ p.teacher_id \in {None} \cup Ids(data.teachers)
                /\ p.room_id \in {None} \cup Ids(data.rooms)

\* C9: with elite_size >= 1, the best fitness at the end of a generation is
\* at least the best fitness before it (that of the previous generation, or
\* of the initial population), whatever is drawn.
C9_ElitismMonotone ==
    [][(data.elite_size >= 1 /\ generation' = generation + 1)
         => FitLeq(population[1].fitness_score,
                   population'[1].fitness_score)]_vars

\* C9 witness: with an elite, the best fitness rose from the first to the
\* second generation, and the population holds a less fit offspring.
C9_Witness ==
    /\ data.elite_size >= 1
    /\ Len(best_fitness_history) = 2
    /\ FitLess(best_fitness_history[1], best_fitness_history[2])
    /\ \E i \in DOMAIN population :
          FitLess(population[i].fitness_score, population[1].fitness_score)

\* C10: analyze, given the returned period list in the returned order and
\* the same constraints, reports the fitness and the conflicts attached to
\* the returned solution.
C10_AnalyzeReproduces ==
    pc = "analyzed" =>
        /\ analysis.fitness_score = best_solution.fitness_score
        /\ analysis.conflicts = best_solution.conflicts

\* C10 witness: the analysed solution came out of crossover and mutation
\* (it schedules one section twice) and carries conflicts.
C10_Witness ==
    /\ pc = "analyzed"
    /\ generation >= 1
    /\ Len(best_solution.periods) = 2
    /\ best_solution.periods[1].section_id = best_solution.periods[2].section_id
    /\ best_solution.conflicts # <<>>
    /\ analysis.conflicts = best_solution.conflicts

\* Number of periods of the solution for one section on one day.
SectionDayCount(solution, section_id, day) ==
    Cardinality({j \in DOMAIN solution.periods :
                    /\ solution.periods[j].section_id = section_id
                    /\ solution.periods[j].day_of_week = day})

\* Every section has exactly total_periods periods on every school day.
ExactCoverage(solution) ==
    LET g == generator
    IN  \A i \in DOMAIN g.sections, d \in DOMAIN g.school_days :
           SectionDayCount(solution, g.sections[i].id, g.school_days[d])
              = g.total_periods

\* C11 as stated: with empty break_schedules the returned solution has,
\* for every section and school day, exactly total_periods periods.
C11_ReturnedExactCoverage ==
    (Returned /\ data.break_schedules = <<>>) => ExactCoverage(best_solution)

\* C11, amended: with empty break_schedules every solution of the initial
\* population, and so what a run of no generation returns, has exactly
\* total_periods periods for every section and school day; crossover and
\* mutation keep only the length, sections * days * total_periods, of every
\* solution.
C11_InitialCoverageLengthKept ==
    LET g == generator
        length == Len(g.sections) * Len(g.school_days) * g.total_periods
    IN  g.break_schedules = <<>> =>
           /\ generation = 0 =>
                 \A s \in Range(population)
                           \cup (IF Returned THEN {best_solution} ELSE {}) :
                    ExactCoverage(s)
           /\ \A s \in Held : Len(s.periods) = length

\* A run with empty break_schedules returns, after a generation, a solution
\* of the full length in which a section has lost its period.
C11_Witness ==
    /\ Returned
    /\ generation >= 1
    /\ data.break_schedules = <<>>
    /\ ~ExactCoverage(best_solution)
    /\ Len(best_solution.periods)
          = Len(data.sections) * Len(generator.school_days)
              * generator.total_periods

\* C12 as stated: the improvement record of optimize never shows more
\* conflicts or a lower fitness after than before.
C12_OptimizeNeverRegresses ==
    (pc = "returned" /\ data.endpoint = "optimize") =>
        /\ response.improvement.final_conflicts
              <= response.improvement.initial_conflicts
        /\ FitLeq(response.improvement.initial_fitness,
                  response.improvement.final_fitness)

\* C13 as stated: of the two conflict-free weeks of ten periods, the one
\* giving 8 periods to T1 and 2 to T2 scores strictly lower than the one
\* giving 5 to each.
C13_UnbalancedScoresLower ==
    (pc = "answered" /\ data.periods = Unbalanced) =>
        FitLess(response.analysis.fitness_score,
                analyze_timetable(data, Balanced).fitness_score)

\* The error messages that name an input the call lacks.
MissingInputs ==
    IF data.endpoint = "generate"
    THEN (IF data.sections = <<>> THEN {"sections are required"} ELSE {})
         \cup (IF data.teachers = <<>> THEN {"teachers are required"} ELSE {})
         \cup (IF data.subjects = <<>> THEN {"subjects are required"} ELSE {})
         \cup (IF DOMAIN data.school_timing = {}
               THEN {"school_timing is required"} ELSE {})
    ELSE IF data.periods # <<>> THEN {}
    ELSE {"existing periods are required", "periods are required"}

\* C14: a call of generate that lacks sections, teachers, subjects or
\* school_timing, and a call of optimize or analyze without periods, is
\* answered 400 with a message naming a missing input, and nothing is
\* built, evaluated or run for it.
C14_MissingInputRejected ==
    (MissingInputs # {} /\ pc # "received") =>
        /\ pc = "rejected"
        /\ response.status = 400
        /\ response.error \in MissingInputs
        /\ population = <<>>
        /\ new_population = <<>>
        /\ initial_solution = None
        /\ analysis = None

\* A call of generate without the 'teachers' key has been answered 400.
C14_Witness ==
    /\ pc = "rejected"
    /\ data.endpoint = "generate"
    /\ "teachers" \notin DOMAIN request
    /\ response = [status |-> 400, error |-> "teachers are required"]

\* The body of a call of generate has a time string that is not a time of
\* day, in school_timing or in a break, or a period duration that is not
\* positive.
MalformedTiming ==
    /\ data.endpoint = "generate"
    /\ \/ TimetableGenerator_raises(data)
       \/ \E i \in DOMAIN data.break_schedules :
             \/ _parse_time_raises(data.break_schedules[i].start_time)
             \/ _parse_time_raises(data.break_schedules[i].end_time)
       \/ Get(data.school_timing, "period_duration_minutes", 45) <= 0

\* C15 as stated: a call of generate with a malformed time string or a
\* period duration that is not positive is answered with a 4xx status and
\* no evolution run starts.
C15_MalformedTimingRejected ==
    (MalformedTiming /\ pc # "received") =>
        /\ pc = "rejected"
        /\ response.status \in 400..499

\* generate_timetable has answered 200.
Generated == Returned /\ data.endpoint = "generate"

\* C16 as stated: when the solution returned by generate has conflicts,
\* statistics.critical_conflicts of the output is not zero.
C16_ConflictsImplyCritical ==
    (Generated /\ best_solution.conflicts # <<>>) =>
        response.timetable.statistics.critical_conflicts # 0

\* C16, amended: in the output of generate conflict_count is the length of
\* the conflict list and critical_conflicts is the number of teacher_overlap
\* and room_double_booking conflicts in it, so critical_conflicts is not
\* zero exactly when the returned solution has a conflict of severity
\* error.
C16_CriticalCountsErrors ==
    Generated =>
        LET conflicts == response.timetable.conflicts
            statistics == response.timetable.statistics
        IN  /\ conflicts = best_solution.conflicts
            /\ statistics.conflict_count = Len(conflicts)
            /\ statistics.critical_conflicts
                  = Len(OfType(conflicts, "teacher_overlap"))
                    + Len(OfType(conflicts, "room_double_booking"))
            /\ statistics.critical_conflicts # 0
                  <=> \E i \in DOMAIN conflicts : conflicts[i].severity = "error"

\* generate has returned a solution with a teacher_overlap among its
\* conflicts, and its output counts the overlap as critical and the
\* warnings beside it only in conflict_count.
C16_Witness ==
    /\ Generated
    /\ OfType(best_solution.conflicts, "teacher_overlap") # <<>>
    /\ response.timetable.statistics.critical_conflicts >= 1
    /\ response.timetable.statistics.conflict_count
          > response.timetable.statistics.critical_conflicts

\* 0 <= f <= 1
InUnitInterval(f) == FitLeq(Zero, f) /\ FitLeq(f, One)

\* C17: the fitness of every evaluated solution lies in [0, 1]: in the
\* populations of every generation, in optimize's initial_solution, and in
\* the outputs of generate, optimize and analyze.
C17_FitnessInUnitInterval ==
    /\ \A s \in Held : InUnitInterval(s.fitness_score)
    /\ (data.endpoint = "optimize"
          /\ pc \notin {"received", "rejected", "failed"}) =>
          InUnitInterval(initial_solution.fitness_score)
    /\ Generated => InUnitInterval(response.timetable.fitness_score)
    /\ (Returned /\ data.endpoint = "optimize") =>
          /\ InUnitInterval(response.optimized_timetable.fitness_score)
          /\ InUnitInterval(response.improvement.initial_fitness)
          /\ InUnitInterval(response.improvement.final_fitness)
    /\ pc = "answered" => InUnitInterval(response.analysis.fitness_score)
    /\ pc = "analyzed" => InUnitInterval(analysis.fitness_score)

\* analyze has scored 0 the timetable whose fifteen conflicts put the
\* unclamped sum below zero.
C17_Witness ==
    /\ pc = "answered"
    /\ data.periods = Crowded
    /\ response.analysis.total_conflicts = 15
    /\ response.analysis.fitness_score = Zero

\* No teacher of the request lists the subject and none has can_teach_all.
Unstaffed(teachers, p) ==
    \A i \in DOMAIN teachers :
        /\ p.subject_id \notin Range(teachers[i].subjects)
        /\ ~teachers[i].can_teach_all

\* C19: in every solution of a run, initial or bred, a period whose
\* subject no teacher can teach has no teacher; no teacher_overlap or
\* teacher_overwork conflict is about such a period or about the null
\* teacher, and the workload balance is that of the other periods alone.
C19_UnstaffedPeriods ==
    \A s \in Range(population) \cup Range(new_population) :
        LET teachers == Get(request, "teachers", <<>>)
            Staffed(p) == ~Unstaffed(teachers, p)
            overlaps == OfType(s.conflicts, "teacher_overlap")
            overwork == OfType(s.conflicts, "teacher_overwork")
        IN  /\ \A j \in DOMAIN s.periods :
                  Staffed(s.periods[j]) \/ s.periods[j].teacher_id = None
            /\ \A k \in DOMAIN overlaps :
                  /\ overlaps[k].teacher_id # None
                  /\ \A j \in DOMAIN overlaps[k].periods :
                        Staffed(overlaps[k].periods[j])
            /\ \A k \in DOMAIN overwork : overwork[k].teacher_id # None
            /\ _calculate_workload_balance(s.periods)
                  = _calculate_workload_balance(SelectSeq(s.periods, Staffed))

\* After a generation the population holds a solution with two periods of
\* a subject nobody teaches, both without teacher, beside a period whose
\* teacher is reported overworked.
C19_Witness ==
    /\ generation >= 1
    /\ \E s \in Range(population) :
          /\ Cardinality({j \in DOMAIN s.periods :
                             /\ Unstaffed(data.teachers, s.periods[j])
                             /\ s.periods[j].teacher_id = None}) = 2
          /\ OfType(s.conflicts, "teacher_overwork") # <<>>

\* C20: every solution of the population carries the conflict list and
\* the fitness that its period list evaluates to, after the initial
\* evaluation and after every generation.
C20_PopulationEvaluated ==
    LET g == generator
    IN  \A i \in DOMAIN population :
           LET periods == population[i].periods
               conflicts == DetectConflicts(g, periods)
           IN  /\ population[i].conflicts = conflicts
               /\ population[i].fitness_score
                     = Score(Len(conflicts),
                             _calculate_distribution_score(g, periods),
                             _calculate_workload_balance(periods))

\* After a generation the population holds a solution bred by mutation and
\* crossover (a section has lost its period in it) whose fitness differs
\* from that of another member.
C20_Witness ==
    /\ pc = "loop"
    /\ generation >= 1
    /\ data.break_schedules = <<>>
    /\ \E i, j \in DOMAIN population :
          /\ ~ExactCoverage(population[i])
          /\ population[i].conflicts # <<>>
          /\ population[i].fitness_score # population[j].fitness_score

\* What the handler extracts from the body of the same call with other
\* periods.
DataWith(periods) == Data([request EXCEPT !.periods = periods])

\* The response of optimize_timetable, had the same run, with the same
\* random choices, been started with other periods.
ResponseWith(periods) ==
    Response(DataWith(periods),
             Evaluate(TimetableGenerator(DataWith(periods)),
                      TimetableSolution(PeriodObjects(periods))),
             best_solution)

Perfect(solution) ==
    /\ FitLeq([hundredths |-> 95, num |-> 0, den |-> 1, ulp |-> 0],
              solution.fitness_score)
    /\ Len(solution.conflicts) = 0

\* generate is running or has returned.
InGenerate == pc \in {"loop", "offspring", "break", "returned", "analyzed"}

\* C21: the evolution loop never runs more than `generations` generations;
\* it is left early exactly at the end of a generation whose top-ranked
\* solution has fitness >= 0.95 and no conflict, and otherwise goes on
\* until the budget is used up: a run that returned before the budget was
\* exhausted returns a conflict-free solution.
C21_LoopStops ==
    LET generations == data.generations
    IN  /\ InGenerate =>
              /\ generation <= generations
              /\ Len(best_fitness_history) = generation
        /\ pc = "offspring" => generation < generations
        /\ pc = "break" => generation >= 1 /\ Perfect(population[1])
        /\ (pc = "loop" /\ generation >= 1) => ~Perfect(population[1])
        /\ Returned =>
              /\ best_solution = population[1]
              /\ generation = generations
                    \/ (generation >= 1 /\ Perfect(best_solution))
              /\ generation < generations => best_solution.conflicts = <<>>

\* C21 witness: a run returned a perfect solution at the end of a
\* generation, with generations of its budget left.
C21_Witness ==
    /\ pc = "returned"
    /\ generation >= 1
    /\ generation < data.generations
    /\ Perfect(best_solution)

\* C22: with elite_size <= population_size, the top elite_size solutions of
\* a generation open new_population and stay there, unaltered, while the
\* offspring are appended, and each of them is a member of the population
\* of the next generation, with the same periods, fitness and conflicts.
C22_ElitesCarryOver ==
    [][data.elite_size <= data.population_size =>
         LET elite == SubSeq(population, 1,
                             Min(data.elite_size, Len(population)))
         IN  /\ pc' = "offspring" =>
                   /\ population' = population
                   /\ SubSeq(new_population', 1, Len(elite)) = elite
             /\ generation' = generation + 1 =>
                   \A i \in DOMAIN elite :
                      \E j \in DOMAIN population' : population'[j] = elite[i]
       ]_vars

\* C22 witness: a generation has ended in which the elite and two
\* offspring were truncated to a population of two (new_population still
\* holds the list before truncation); the elite was kept, ranked behind a
\* fitter offspring.
C22_Witness ==
    /\ pc \in {"loop", "break"}
    /\ generation >= 1
    /\ data.elite_size = 1
    /\ data.population_size = 2
    /\ Len(new_population) = 3
    /\ population[2] = new_population[1]
    /\ FitLess(population[2].fitness_score, population[1].fitness_score)

\* C23 as stated: the entrants are drawn with replacement, so whenever the
\* population is larger than a tournament every member of it can be the
\* one returned (a member can fill all the slots).
C23_AnyMemberCanWin ==
    (pc = "selected" /\ Len(population) > tournament_size) =>
        _tournament_selection(population) = Range(population)

\* The periods in weekday order: a stable sort by day_of_week.
RECURSIVE ByDay(_)
ByDay(periods) ==
    IF periods = <<>> THEN <<>>
    ELSE LET rest == ByDay(Tail(periods))
             x == Head(periods)
             Before(p) == p.day_of_week < x.day_of_week
             NotBefore(p) == ~Before(p)
         IN  SelectSeq(rest, Before) \o <<x>> \o SelectSeq(rest, NotBefore)

\* C24 as stated: the distribution score is taken from the sorted weekdays
\* of each (section, subject) pair, so a timetable posted to analyze in any
\* order of its periods gets the distribution score and the fitness of the
\* same periods listed in weekday order.
C24_DistributionOrderFree ==
    pc = "answered" =>
        LET in_order == analyze_timetable(data, ByDay(data.periods))
        IN  /\ response.analysis.distribution_score
                  = in_order.distribution_score
            /\ response.analysis.fitness_score = in_order.fitness_score

\* What mutation never touches in a period.
SlotOf(p) ==
    <<p.section_id, p.subject_id, p.day_of_week, p.period_number,
      p.start_time, p.end_time>>

\* The two period lists hold the same multiset of SlotOf tuples.
SameSlots(a, b) ==
    /\ Len(a) = Len(b)
    /\ \A i \in DOMAIN a :
          Cardinality({j \in DOMAIN a : SlotOf(a[j]) = SlotOf(a[i])})
             = Cardinality({j \in DOMAIN b : SlotOf(b[j]) = SlotOf(a[i])})

\* C25: whatever _mutate draws, the copy it returns for a solution of the
\* population holds the same multiset of (section, subject, weekday,
\* period number, start, end) tuples as that solution and differs from it
\* in the order of the periods and in teacher_id and room_id alone; the
\* population the parents are taken from is not written to while offspring
\* are produced.
C25_MutationKeepsSlots ==
    [][/\ LET g == generator
          IN  \A i \in DOMAIN population :
                 \A mutated \in _mutate(g, population[i]) :
                    /\ SameSlots(mutated.periods, population[i].periods)
                    /\ [mutated EXCEPT !.periods = population[i].periods]
                          = population[i]
       /\ new_population' # new_population /\ pc' = "offspring"
             => population' = population
      ]_vars

\* C25 witness: both parents give T1 to S1 and then to S2, and an
\* offspring lists S2 before S1 and has T2: its periods were swapped and a
\* teacher was drawn again, which only mutation does.
C25_Witness ==
    /\ pc = "offspring"
    /\ Len(population) = 2
    /\ \A i \in DOMAIN population :
          /\ Len(population[i].periods) = 2
          /\ population[i].periods[1].section_id = "S1"
          /\ population[i].periods[2].section_id = "S2"
          /\ \A j \in DOMAIN population[i].periods :
                population[i].periods[j].teacher_id = "T1"
    /\ \E k \in DOMAIN new_population :
          /\ new_population[k].periods[1].section_id = "S2"
          /\ new_population[k].periods[2].section_id = "S1"
          /\ \E j \in DOMAIN new_population[k].periods :
                new_population[k].periods[j].teacher_id = "T2"

\* C26 as stated: the bonus of at most 0.3 offsets up to three conflicts, so
\* a solution with no more than three conflicts, an unpenalised
\* distribution and balanced workloads scores exactly 1.0.
C26_ThreeConflictsOffset ==
    LET g == generator
    IN  \A s \in Held :
           (/\ Len(s.conflicts) <= 3
            /\ _calculate_distribution_score(g, s.periods) = 20
            /\ LET balance == _calculate_workload_balance(s.periods)
               IN  balance[1] = balance[2])
              => s.fitness_score = One

\* C26 (amended): a conflict-free solution scores exactly 1.0 whatever its
\* distribution and balance; so does a solution with one or two conflicts
\* whose distribution is unpenalised; a solution with three or more
\* conflicts scores below 1.0 (three conflicts with the full bonus give
\* 0.9999999999999999).
C26_Saturation ==
    LET g == generator
    IN  \A s \in Held :
           /\ s.conflicts = <<>> => s.fitness_score = One
           /\ (Len(s.conflicts) <= 2
                 /\ _calculate_distribution_score(g, s.periods) = 20)
                 => s.fitness_score = One
           /\ Len(s.conflicts) >= 3 => FitLess(s.fitness_score, One)

\* C26 witness: a population holds, both at fitness 1.0, a solution with a
\* conflict and a conflict-free solution.
C26_Witness ==
    \E s, t \in Range(population) :
       /\ s.fitness_score = One /\ s.conflicts # <<>>
       /\ t.fitness_score = One /\ t.conflicts = <<>>

\* C27 as stated: when generate returns and its final population holds a
\* solution without conflicts, the returned solution has no conflicts.
C27_ConflictFreePreferred ==
    Returned =>
        ((\E i \in DOMAIN population : population[i].conflicts = <<>>)
            => best_solution.conflicts = <<>>)

\* The period's teacher is None or a teacher of the request who lists the
\* period's subject or can teach all, and its room is None or an available
\* room of the request.
Staffing(d, p) ==
    /\ \/ p.teacher_id = None
       \/ \E i \in DOMAIN d.teachers :
             /\ d.teachers[i].id = p.teacher_id
             /\ \/ p.subject_id \in Range(d.teachers[i].subjects)
                \/ d.teachers[i].can_teach_all
    /\ \/ p.room_id = None
       \/ \E i \in DOMAIN d.rooms :
             /\ d.rooms[i].id = p.room_id
             /\ d.rooms[i].is_available

\* C28: in every solution generate holds in any generation (the initial
\* population, the elite, the offspring of crossover and mutation, the
\* returned solution) every period has a teacher that is None or eligible
\* for its subject and a room that is None or available.
C28_StaffingInvariant ==
    LET d == data
    IN  \A s \in Held : \A j \in DOMAIN s.periods : Staffing(d, s.periods[j])

\* C28 witness: after a generation, a solution whose periods mutation has
\* reordered gives the only teacher, who teaches MATH, to a MATH period and
\* no teacher to an ART period.
C28_Witness ==
    /\ generation >= 1
    /\ \E s \in Range(population) :
          /\ \E j, k \in DOMAIN s.periods :
                /\ j < k
                /\ s.periods[j].period_number > s.periods[k].period_number
          /\ \E j, k \in DOMAIN s.periods :
                /\ s.periods[j].subject_id = "MATH"
                /\ s.periods[j].teacher_id = "T1"
                /\ s.periods[k].subject_id = "ART"
                /\ s.periods[k].teacher_id = None

\* C29: in every solution generate holds in any generation, no period
\* starts at a time t with start <= t < end for a break of the period's
\* weekday; a period may start at the very end of a break.
C29_NoStartInBreak ==
    \A s \in Held :
       \A j \in DOMAIN s.periods :
          \A w \in BreakWindows(s.periods[j].day_of_week) :
             \/ StrSeconds(s.periods[j].start_time) < w[1]
             \/ w[2] <= StrSeconds(s.periods[j].start_time)

\* C29 witness: after a generation, a solution whose periods mutation has
\* reordered holds a period that starts at the instant a Monday break
\* ends.
C29_Witness ==
    /\ generation >= 1
    /\ \E s \in Range(population) :
          /\ \E j, k \in DOMAIN s.periods :
                /\ j < k
                /\ s.periods[j].period_number > s.periods[k].period_number
          /\ \E j \in DOMAIN s.periods :
                \E w \in BreakWindows(s.periods[j].day_of_week) :
                   StrSeconds(s.periods[j].start_time) = w[2]

\* Where and when a period is held: what the initializer lays out before
\* its random draws.
Layout(p) ==
    <<p.section_id, p.day_of_week, p.period_number, p.start_time, p.end_time>>

\* C30: within a run of generate all solutions have the same number N of
\* periods, the number of slots the initializer lays out: the initial
\* solutions, which also agree index by index on section, weekday, period
\* number, start and end, and every solution cloned, crossed or mutated in
\* any generation.  When N < 2 no crossover point exists for any pair of
\* parents, so an attempted crossover raises, and only then does generate
\* raise in its loop.
C30_FixedLength ==
    LET N == Len(Slots(generator))
    IN  /\ \A s \in Held : Len(s.periods) = N
        /\ (pc = "loop" /\ generation = 0) =>
              \A i, j \in DOMAIN population :
                 \A k \in 1..N :
                    Layout(population[i].periods[k])
                       = Layout(population[j].periods[k])
        /\ pc \in {"offspring", "raised"} =>
              \A i, j \in DOMAIN population :
                 (CrossoverPoints(population[i], population[j]) = {})
                    <=> N < 2
        /\ pc = "raised" => N < 2

\* C30 witness: a run over three slots has completed a generation and
\* holds, at the same length, a solution that crossover and mutation have
\* left with one section twice and out of the initial order.
C30_Witness ==
    /\ generation >= 1
    /\ Len(Slots(generator)) = 3
    /\ \E s \in Range(population) :
          /\ Len(s.periods) = 3
          /\ s.periods[1].section_id # "S1"
          /\ \E j, k \in DOMAIN s.periods :
                j # k /\ s.periods[j].section_id = s.periods[k].section_id
====
